---------------------------- MODULE Spec2Model ----------------------------
(***************************************************************************)
(* A model of code_reviewer.py: pattern-based ignore filtering, language   *)
(* filtering, traversal, layout rendering, safe reading, sanitization,     *)
(* document assembly and the run of review() under main().                 *)
(*                                                                         *)
(* Text is modelled as a sequence of characters, each character a string   *)
(* of its own ("a", ".", "\n"); a path is the sequence of its components   *)
(* (pathlib's parts), each component a text.                               *)
(***************************************************************************)
EXTENDS Naturals, Sequences, FiniteSets, TLC

VARIABLES
    disk,             \* the file system the run sees
    args,             \* the parsed command line (argparse namespace)
    pc,               \* position of the run
    ignore_patterns,  \* review(): ignore_patterns
    files,            \* review(): files, in the order they were collected
    visited,          \* whether _collect_files touched the file system
    dir_layout,       \* _build_prompt(): dir_layout (a sequence of lines)
    todo,             \* _build_prompt(): what is left of sorted(files)
    file_contents,    \* _build_prompt(): "".join(file_contents) so far
    failed,           \* files for which _read_file_safely returned None
    api_calls,        \* number of calls of _call_deepseek_api
    exit_status,      \* the status given to sys.exit, NoExit while running
    interrupted,      \* a KeyboardInterrupt was raised before the API call
    fn_in,            \* argument of a function applied on its own
    fn_out            \* its result

vars == <<disk, args, pc, ignore_patterns, files, visited, dir_layout, todo,
          file_contents, failed, api_calls, exit_status, interrupted,
          fn_in, fn_out>>

---------------------------------------------------------------------------
(* Bounds of the model.                                                    *)

MaxFiles == 3
MaxNameLen == 3
MaxPatLen == 3
MaxContentLen == 3

---------------------------------------------------------------------------
(* Characters and str operations.                                          *)

NUL == "NUL"
LF == "\n"
CR == "\r"

LowerCase == <<"a","b","c","d","e","f","g","h","i","j","k","l","m",
               "n","o","p","q","r","s","t","u","v","w","x","y","z">>
UpperCase == <<"A","B","C","D","E","F","G","H","I","J","K","L","M",
               "N","O","P","Q","R","S","T","U","V","W","X","Y","Z">>

\* The characters of the model in ascending code-point order.
Ascii == <<NUL, LF, CR, " ", "#", "*", "+", "-", ".", "/", "?">>
         \o UpperCase \o <<"\\", "_">> \o LowerCase

\* The rank of a character in code-point order (str comparison goes by it).
Ord(c) == CHOOSE i \in DOMAIN Ascii : Ascii[i] = c

\* str.lower(), character by character.
LowerChar(c) ==
    IF \E i \in DOMAIN UpperCase : UpperCase[i] = c
    THEN LowerCase[CHOOSE i \in DOMAIN UpperCase : UpperCase[i] = c]
    ELSE c

Lower(s) == [i \in DOMAIN s |-> LowerChar(s[i])]

\* s < t for str: the first differing character decides, a proper prefix
\* is smaller.
StrLess(s, t) ==
    \E k \in 1..(Len(t)) :
        /\ k <= Len(s) + 1
        /\ \A j \in 1..(k - 1) : s[j] = t[j]
        /\ (k = Len(s) + 1 \/ (k <= Len(s) /\ Ord(s[k]) < Ord(t[k])))

StartsWith(s, p) ==
    Len(p) <= Len(s) /\ \A i \in 1..Len(p) : s[i] = p[i]

EndsWith(s, p) ==
    Len(p) <= Len(s) /\ \A i \in 1..Len(p) : s[Len(s) - Len(p) + i] = p[i]

Contains(s, c) == \E i \in DOMAIN s : s[i] = c

Drop(s, n) == SubSeq(s, n + 1, Len(s))

\* str.replace(old, new): left to right, occurrences not overlapping.
RECURSIVE Replace(_, _, _)
Replace(s, old, new) ==
    IF s = <<>> THEN <<>>
    ELSE IF StartsWith(s, old) THEN new \o Replace(Drop(s, Len(old)), old, new)
    ELSE <<Head(s)>> \o Replace(Tail(s), old, new)

Whitespace == {" ", LF, CR}

\* str.strip()
RECURSIVE LStrip(_)
LStrip(s) ==
    IF s # <<>> /\ Head(s) \in Whitespace THEN LStrip(Tail(s)) ELSE s

RECURSIVE RStrip(_)
RStrip(s) ==
    IF s # <<>> /\ s[Len(s)] \in Whitespace
    THEN RStrip(SubSeq(s, 1, Len(s) - 1)) ELSE s

Strip(s) == RStrip(LStrip(s))

\* "".join(parts)
RECURSIVE Join(_)
Join(parts) ==
    IF parts = <<>> THEN <<>> ELSE Head(parts) \o Join(Tail(parts))

\* All texts over an alphabet of at most n characters.
Texts(alphabet, n) == UNION {[1..k -> alphabet] : k \in 0..n}

---------------------------------------------------------------------------
(* re.escape, and re.match of "^" + regex + "$" for the regexes            *)
(* _should_ignore builds.                                                  *)

\* The characters re.escape puts a backslash before.
ReSpecial == {"(", ")", "[", "]", "{", "}", "?", "*", "+", "-", "|", "^",
              "$", "\\", ".", "&", "~", "#", " ", LF, CR}

RECURSIVE ReEscape(_)
ReEscape(s) ==
    IF s = <<>> THEN <<>>
    ELSE (IF Head(s) \in ReSpecial THEN <<"\\", Head(s)>> ELSE <<Head(s)>>)
         \o ReEscape(Tail(s))

\* The regex read as a sequence of items: a backslash and the character it
\* escapes is that literal character, an unescaped "." is any character but
\* a line feed, and a "*" after it repeats it.
RECURSIVE ReParse(_)
ReParse(r) ==
    IF r = <<>> THEN <<>>
    ELSE IF Head(r) = "\\" /\ Len(r) >= 2
         THEN <<[kind |-> "lit", ch |-> r[2]]>> \o ReParse(Drop(r, 2))
    ELSE IF Head(r) = "." /\ Len(r) >= 2 /\ r[2] = "*"
         THEN <<[kind |-> "dotstar", ch |-> "."]>> \o ReParse(Drop(r, 2))
    ELSE IF Head(r) = "."
         THEN <<[kind |-> "dot", ch |-> "."]>> \o ReParse(Tail(r))
    ELSE <<[kind |-> "lit", ch |-> Head(r)]>> \o ReParse(Tail(r))

\* "$" without re.MULTILINE: the end of the string, or just before a line
\* feed that ends it.
AtDollar(s) == s = <<>> \/ s = <<LF>>

\* Whether the items, followed by "$", match at the start of s.
RECURSIVE ReMatchItems(_, _)
ReMatchItems(items, s) ==
    IF items = <<>> THEN AtDollar(s)
    ELSE LET it == Head(items) IN
         CASE it.kind = "lit" ->
                s # <<>> /\ Head(s) = it.ch /\ ReMatchItems(Tail(items), Tail(s))
           [] it.kind = "dot" ->
                s # <<>> /\ Head(s) # LF /\ ReMatchItems(Tail(items), Tail(s))
           [] it.kind = "dotstar" ->
                \/ ReMatchItems(Tail(items), s)
                \/ s # <<>> /\ Head(s) # LF /\ ReMatchItems(items, Tail(s))

\* re.match(f"^{regex}$", s) is not None
ReMatch(regex, s) == ReMatchItems(ReParse(regex), s)

---------------------------------------------------------------------------
(* CodeReviewer._should_ignore                                             *)

\* The regex of a pattern that holds a wildcard (lines 69-70).
GlobToRegex(pattern) ==
    Replace(Replace(ReEscape(pattern), <<"\\", "*">>, <<".", "*">>),
            <<"\\", "?">>, <<".">>)

\* One round of the loop over ignore_patterns (lines 63-74).
PatternIgnores(name, raw) ==
    LET pattern == Strip(raw) IN
    /\ pattern # <<>>
    /\ Head(pattern) # "#"
    /\ IF Contains(pattern, "*") \/ Contains(pattern, "?")
       THEN ReMatch(GlobToRegex(pattern), name)
       ELSE name = pattern

_should_ignore(name, patterns) ==
    \/ StartsWith(name, <<".">>)
    \/ \E raw \in patterns : PatternIgnores(name, raw)

\* CodeReviewer._load_ignore_patterns: the stripped non-empty lines of the
\* ignore file; the empty set without a file.
_load_ignore_patterns(lines) ==
    {Strip(lines[i]) : i \in {j \in DOMAIN lines : Strip(lines[j]) # <<>>}}

---------------------------------------------------------------------------
(* CodeReviewer._sanitize_for_json                                         *)

\* _sanitize_for_json with the second replace of line 264 left out: a bare
\* "\r" stays.
SanitizeKeepingBareCR(content) ==
    IF content = <<>> THEN <<>>
    ELSE LET noNul == Replace(content, <<NUL>>, <<>>)
             unix == Replace(noNul, <<CR, LF>>, <<LF>>)
         IN IF EndsWith(unix, <<LF>>) THEN unix ELSE unix \o <<LF>>

_sanitize_for_json(content) ==
    IF content = <<>> THEN <<>>
    ELSE LET noNul == Replace(content, <<NUL>>, <<>>)
             unix == Replace(Replace(noNul, <<CR, LF>>, <<LF>>), <<CR>>, <<LF>>)
         IN IF EndsWith(unix, <<LF>>) THEN unix ELSE unix \o <<LF>>

---------------------------------------------------------------------------
(* pathlib: a path is the sequence of its parts.                           *)

\* Path.name
Name(path) == path[Len(path)]

\* Path.parent
Parent(path) == SubSeq(path, 1, Len(path) - 1)

\* Path.relative_to(root)
RelativeTo(path, root) == Drop(path, Len(root))

IsUnder(path, dir) ==
    Len(path) > Len(dir) /\ SubSeq(path, 1, Len(dir)) = dir

\* Path.suffix: from the last "." of the name on, unless that "." is the
\* first or the last character of the name.
Suffix(name) ==
    LET dots == {i \in DOMAIN name : name[i] = "."} IN
    IF dots = {} THEN <<>>
    ELSE LET i == CHOOSE k \in dots : \A j \in dots : j <= k IN
         IF 1 < i /\ i < Len(name) THEN SubSeq(name, i, Len(name)) ELSE <<>>

\* str(path): the parts joined by "/".
RECURSIVE PathStr(_)
PathStr(path) ==
    IF path = <<>> THEN <<>>
    ELSE IF Len(path) = 1 THEN path[1]
    ELSE path[1] \o <<"/">> \o PathStr(Tail(path))

\* path < other for Path objects: the sequences of parts are compared, part
\* by part, each part as a str.
PathLess(p, q) ==
    \E k \in 1..Len(q) :
        /\ k <= Len(p) + 1
        /\ \A j \in 1..(k - 1) : p[j] = q[j]
        /\ (k = Len(p) + 1 \/ (k <= Len(p) /\ StrLess(p[k], q[k])))

\* sorted() by str(path) in place of the Path objects themselves.
RECURSIVE SortedByStr(_)
SortedByStr(S) ==
    IF S = {} THEN <<>>
    ELSE LET least == CHOOSE p \in S :
                          \A q \in S \ {p} : StrLess(PathStr(p), PathStr(q))
         IN <<least>> \o SortedByStr(S \ {least})

\* sorted(files) for a list of Path objects.
RECURSIVE SortedPaths(_)
SortedPaths(S) ==
    IF S = {} THEN <<>>
    ELSE LET least == CHOOSE p \in S : \A q \in S \ {p} : PathLess(p, q)
         IN <<least>> \o SortedPaths(S \ {least})

Range(seq) == {seq[i] : i \in DOMAIN seq}

\* The file system: regular files, directories, entries that are neither,
\* and the directories whose listing raises PermissionError.
is_file(d, path) == path \in d.files
is_dir(d, path) == path \in d.dirs
exists(d, path) == path \in d.files \cup d.dirs \cup d.special

\* Path.iterdir(): the entries right below path, in no particular order.
iterdir(d, path) ==
    {e \in d.files \cup d.dirs \cup d.special :
        Len(e) = Len(path) + 1 /\ IsUnder(e, path)}

---------------------------------------------------------------------------
(* CodeReviewer._collect_files                                             *)

py == <<"p","y">>

\* The table of lines 120-133.
Extensions ==
    LET dot(s) == <<".">> \o s IN
    (<<"p","y","t","h","o","n">> :> {dot(py)})
    @@ (<<"j","a","v","a","s","c","r","i","p","t">> :>
            {dot(<<"j","s">>), dot(<<"j","s","x">>), dot(<<"t","s">>),
             dot(<<"t","s","x">>)})
    @@ (<<"j","a","v","a">> :> {dot(<<"j","a","v","a">>)})
    @@ (<<"c","p","p">> :>
            {dot(<<"c","p","p">>), dot(<<"c","c">>), dot(<<"c","x","x">>),
             dot(<<"h","p","p">>), dot(<<"h","h">>), dot(<<"h">>)})
    @@ (<<"c">> :> {dot(<<"c">>), dot(<<"h">>)})
    @@ (<<"g","o">> :> {dot(<<"g","o">>)})
    @@ (<<"r","u","s","t">> :> {dot(<<"r","s">>)})
    @@ (<<"r","u","b","y">> :> {dot(<<"r","b">>)})
    @@ (<<"p","h","p">> :> {dot(<<"p","h","p">>)})
    @@ (<<"h","t","m","l">> :> {dot(<<"h","t","m","l">>), dot(<<"h","t","m">>)})
    @@ (<<"c","s","s">> :> {dot(<<"c","s","s">>)})
    @@ (<<"m","a","r","k","d","o","w","n">> :>
            {dot(<<"m","d">>), dot(<<"m","a","r","k","d","o","w","n">>)})

\* LanguageAccepts without the lower() of line 136 on the suffix.
LanguageAcceptsSuffixAsIs(language_filter, item) ==
    \/ language_filter = <<>>
    \/ Lower(language_filter) \notin DOMAIN Extensions
    \/ Suffix(Name(item)) \in Extensions[Lower(language_filter)]

\* Lines 118-137: whether the language filter lets a file of a directory
\* through. An empty language is falsy: no filter.
LanguageAccepts(language_filter, item) ==
    \/ language_filter = <<>>
    \/ Lower(language_filter) \notin DOMAIN Extensions
    \/ Lower(Suffix(Name(item))) \in Extensions[Lower(language_filter)]

\* _collect_files with the check of line 114 made for files only: ignored
\* directories are walked.
RECURSIVE CollectWalkingIgnoredDirs(_, _, _, _, _)
CollectWalkingIgnoredDirs(d, path, recursive, patterns, language_filter) ==
    IF is_file(d, path)
    THEN IF ~_should_ignore(Name(path), patterns) THEN {path} ELSE {}
    ELSE IF path \in d.denied THEN {}
    ELSE UNION {
        IF is_file(d, item)
        THEN IF ~_should_ignore(Name(item), patterns)
                /\ LanguageAccepts(language_filter, item)
             THEN {item} ELSE {}
        ELSE IF is_dir(d, item) /\ recursive
             THEN CollectWalkingIgnoredDirs(d, item, recursive, patterns,
                                            language_filter)
        ELSE {}
        : item \in iterdir(d, path)}

\* The paths the generator yields, as a set: the order in which they come
\* is that of iterdir(), which the file system decides.
RECURSIVE _collect_files(_, _, _, _, _)
_collect_files(d, path, recursive, patterns, language_filter) ==
    IF is_file(d, path)
    THEN IF ~_should_ignore(Name(path), patterns) THEN {path} ELSE {}
    ELSE IF path \in d.denied THEN {}
    ELSE UNION {
        IF _should_ignore(Name(item), patterns) THEN {}
        ELSE IF is_file(d, item)
             THEN IF LanguageAccepts(language_filter, item) THEN {item} ELSE {}
        ELSE IF is_dir(d, item) /\ recursive
             THEN _collect_files(d, item, recursive, patterns, language_filter)
        ELSE {}
        : item \in iterdir(d, path)}

\* list(generator): the yielded paths in one of the orders iterdir() may
\* give them.
Orders(S) ==
    {s \in [1..Cardinality(S) -> S] : \A i, j \in DOMAIN s : s[i] = s[j] => i = j}

---------------------------------------------------------------------------
(* CodeReviewer._build_directory_layout                                    *)

\* The nested dict of lines 151-167: a directory maps the names below it to
\* their nodes ({} when new), a file is the leaf None.
NewDir == [file |-> FALSE, kids |-> <<>>]
FileLeaf == [file |-> TRUE, kids |-> <<>>]

Put(f, k, v) == [x \in DOMAIN f \cup {k} |-> IF x = k THEN v ELSE f[x]]

\* Lines 158-167 for one file: walk down parts[:-1], creating what is
\* missing, then mark parts[-1] as a file unless the name is there already.
RECURSIVE TreeInsert(_, _)
TreeInsert(node, parts) ==
    IF Len(parts) = 1
    THEN IF parts[1] \in DOMAIN node.kids THEN node
         ELSE [node EXCEPT !.kids = Put(node.kids, parts[1], FileLeaf)]
    ELSE LET part == parts[1]
             current == IF part \in DOMAIN node.kids THEN node.kids[part]
                        ELSE NewDir
         IN [node EXCEPT !.kids = Put(node.kids, part,
                                      TreeInsert(current, Tail(parts)))]

\* The loop of lines 153-167 over sorted(files).
RECURSIVE BuildTree(_, _, _)
BuildTree(tree, sorted_files, root_path) ==
    IF sorted_files = <<>> THEN tree
    ELSE BuildTree(TreeInsert(tree, RelativeTo(Head(sorted_files), root_path)),
                   Tail(sorted_files), root_path)

\* The key of line 177, (x[1] is not None, x[0]). A file's x[1] is None, so
\* its key starts with False and a directory's with True: False sorts
\* first, then the names decide.
ItemLess(kids, a, b) ==
    \/ kids[a].file /\ ~kids[b].file
    \/ kids[a].file = kids[b].file /\ StrLess(a, b)

\* sorted(node.items(), key=...): the names in that order.
RECURSIVE SortedItems(_, _)
SortedItems(kids, names) ==
    IF names = {} THEN <<>>
    ELSE LET first == CHOOSE a \in names :
                          \A b \in names \ {a} : ItemLess(kids, a, b)
         IN <<first>> \o SortedItems(kids, names \ {first})

\* The glyphs of the tree: CORNER stands for the corner connector
\* (up-and-right, two dashes, a space), TEE for the tee connector, PIPE for
\* the vertical bar and three spaces, BLANK for four spaces.
CORNER == "L-- "
TEE == "|-- "
PIPE == "|   "
BLANK == "    "
NoConnector == ""

\* A line of the layout, prefix + connector + name (+ "/" for a
\* directory), kept in its pieces.
Line(prefix, connector, name, dir) ==
    [prefix |-> prefix, connector |-> connector, name |-> name, dir |-> dir]

\* build_tree_lines (lines 169-209).
RECURSIVE build_tree_lines(_, _, _, _)
build_tree_lines(node, prefix, is_last, depth) ==
    IF DOMAIN node.kids = {} THEN <<>>
    ELSE
    LET items == SortedItems(node.kids, DOMAIN node.kids)
        entry(i) ==
            LET name == items[i]
                subtree == node.kids[name]
                is_last_item == (i = Len(items))
                connector == IF depth = 0 THEN NoConnector
                             ELSE IF is_last THEN CORNER ELSE TEE
                next_prefix == IF depth = 0 THEN <<>>
                               ELSE prefix \o <<IF is_last THEN BLANK ELSE PIPE>>
            IN IF subtree.file
               THEN <<Line(prefix, connector, name, FALSE)>>
               ELSE <<Line(prefix, connector, name, TRUE)>>
                    \o build_tree_lines(subtree, next_prefix, is_last_item,
                                        depth + 1)
    IN Join([i \in 1..Len(items) |-> entry(i)])

\* "Directory layout: No files found."
NoFilesLine == Line(<<>>, NoConnector, <<"Directory layout: No files found.">>, FALSE)

\* The lines of the layout; the text is "\n".join(lines) + "\n\n".
_build_directory_layout(root_path, file_list) ==
    IF file_list = <<>> THEN <<NoFilesLine>>
    ELSE <<Line(<<>>, NoConnector, Name(root_path), TRUE)>>
         \o build_tree_lines(
                BuildTree(NewDir, SortedPaths(Range(file_list)), root_path),
                <<>>, TRUE, 0)

---------------------------------------------------------------------------
(* CodeReviewer._build_prompt: the blocks of the body.                     *)

\* f"\n+++ {rel_path} START +++\n"
StartMarker(rel_path) ==
    <<LF, "+", "+", "+", " ">> \o PathStr(rel_path)
    \o <<" ", "S", "T", "A", "R", "T", " ", "+", "+", "+", LF>>

\* f"\n+++ {rel_path} END +++\n"
EndMarker(rel_path) ==
    <<LF, "+", "+", "+", " ">> \o PathStr(rel_path)
    \o <<" ", "E", "N", "D", " ", "+", "+", "+", LF>>

\* What lines 245-250 append for a file that was read.
Block(file_path, root_path, content) ==
    LET rel_path == RelativeTo(file_path, root_path) IN
    StartMarker(rel_path) \o _sanitize_for_json(content) \o EndMarker(rel_path)

---------------------------------------------------------------------------
(* The inputs of a run: what is on disk and what the command line says.    *)

proj == <<"p","r","o","j">>
RootDir == <<proj>>

\* The files a disk of the model may hold, below proj/.
CandidateFiles ==
    { <<proj, <<"a",".","p","y">>>>,
      <<proj, <<"s","r","c",".","p","y">>>>,
      <<proj, <<"s","r","c">>, <<"a",".","p","y">>>>,
      <<proj, <<"s","u","b">>, <<"b",".","p","y">>>>,
      <<proj, <<"s","u","b">>, <<"d">>, <<"e",".","P","Y">>>>,
      <<proj, <<"r","e","a","d","m","e",".","m","d">>>>,
      <<proj, <<".","e","n","v">>>>,
      <<proj, <<".","g","i","t">>, <<"c",".","p","y">>>> }

\* What read_text gives for a file: texts with and without a final line
\* feed, with "\r\n", with a NUL, and the empty text.
TextOf(path) ==
    LET name == Name(path) IN
    IF name = <<"a",".","p","y">> THEN
        (IF Len(path) = 2 THEN <<"x">> ELSE <<>>)
    ELSE IF name = <<"b",".","p","y">> THEN <<"y">>
    ELSE IF name = <<"s","r","c",".","p","y">> THEN <<"z", CR, LF>>
    ELSE IF name = <<"r","e","a","d","m","e",".","m","d">> THEN <<"#", LF, LF>>
    ELSE <<NUL, "e", CR>>

Ancestors(path) == {SubSeq(path, 1, k) : k \in 1..(Len(path) - 1)}

\* The disk that holds the given files and the directories above them.
DiskOf(fileset, denied) ==
    [files   |-> fileset,
     dirs    |-> {RootDir} \cup UNION {Ancestors(f) : f \in fileset},
     special |-> {<<<<"f","i","f","o">>>>},
     denied  |-> denied,
     text    |-> [f \in fileset |-> TextOf(f)]]

Disks(deniable) ==
    {DiskOf(fs, dn) :
        fs \in {x \in SUBSET CandidateFiles : Cardinality(x) <= MaxFiles},
        dn \in {x \in SUBSET deniable : Cardinality(x) <= 1}}

Missing == <<<<"g","o","n","e">>>>

python == <<"p","y","t","h","o","n">>
Languages ==
    { <<>>, python, <<"P","y","t","h","o","n">>,
      <<"c","o","b","o","l">>, <<"m","a","r","k","d","o","w","n">> }

\* Ignore files, as their lines; <<>> also stands for no ignore file.
IgnoreFiles ==
    { <<>>,
      << <<"*",".","m","d",LF>> >>,
      << <<"#"," ","a",".","p","y",LF>>, <<LF>>, <<" ","s","r","c",LF>> >>,
      << <<"s","*",LF>> >>,
      << <<"?",".","p","y",LF>>, <<"s","u","b">> >> }

Args(target, recursive, language, ignore_lines) ==
    [target |-> target, recursive |-> recursive, language |-> language,
     ignore_lines |-> ignore_lines]

\* Lines 337-340: the root the relative paths are taken from.
RootPath ==
    IF is_file(disk, args.target) THEN Parent(args.target) ELSE args.target

---------------------------------------------------------------------------
(* The run of main(): review() and the exits.                              *)

ExitSuccess == 0
ExitFailure == 1
ExitInterrupted == 130

\* The state before review() is entered, but for disk, args and pc.
Fresh ==
    /\ ignore_patterns = {}
    /\ files = <<>>
    /\ visited = FALSE
    /\ dir_layout = <<>>
    /\ todo = <<>>
    /\ file_contents = <<>>
    /\ failed = {}
    /\ api_calls = 0
    /\ exit_status = <<>>
    /\ interrupted = FALSE

Init ==
    /\ disk \in Disks({})
    /\ \E target \in {RootDir, Missing} \cup disk.files \cup disk.special,
          recursive \in BOOLEAN,
          language \in {<<>>, python},
          ignore_lines \in {<<>>, << <<"*",".","m","d",LF>> >>} :
          args = Args(target, recursive, language, ignore_lines)
    /\ pc = "review"
    /\ Fresh
    /\ fn_in = <<>>
    /\ fn_out = <<>>

\* sys.exit(code) at the end of main().
Exit(code) ==
    /\ exit_status' = <<code>>
    /\ pc' = "done"

\* Lines 312-314: the target does not exist; review returns False.
CheckTargetMissing ==
    /\ pc = "review"
    /\ ~exists(disk, args.target)
    /\ Exit(ExitFailure)
    /\ UNCHANGED <<disk, args, ignore_patterns, files, visited, dir_layout,
                   todo, file_contents, failed, api_calls, interrupted,
                   fn_in, fn_out>>

\* Lines 312-320: the target exists; the ignore patterns are loaded.
CheckTargetExists ==
    /\ pc = "review"
    /\ exists(disk, args.target)
    /\ ignore_patterns' = _load_ignore_patterns(args.ignore_lines)
    /\ pc' = "collect"
    /\ UNCHANGED <<disk, args, files, visited, dir_layout, todo,
                   file_contents, failed, api_calls, exit_status,
                   interrupted, fn_in, fn_out>>

\* Lines 323-328 for a target that is neither a file nor a directory:
\* iterdir() raises NotADirectoryError, which main() reports (413-415).
CollectRaises ==
    /\ pc = "collect"
    /\ args.target \in disk.special
    /\ visited' = TRUE
    /\ Exit(ExitFailure)
    /\ UNCHANGED <<disk, args, ignore_patterns, files, dir_layout, todo,
                   file_contents, failed, api_calls, interrupted,
                   fn_in, fn_out>>

\* CollectNothing without the return of line 332: the run goes on to
\* _build_prompt with no files.
CollectNothingGoesOn ==
    /\ pc = "collect"
    /\ args.target \notin disk.special
    /\ _collect_files(disk, args.target, args.recursive, ignore_patterns,
                      args.language) = {}
    /\ files' = <<>>
    /\ visited' = TRUE
    /\ pc' = "prompt"
    /\ UNCHANGED <<disk, args, ignore_patterns, dir_layout, todo,
                   file_contents, failed, api_calls, exit_status,
                   interrupted, fn_in, fn_out>>

\* Lines 323-332: nothing was collected; review returns True.
CollectNothing ==
    /\ pc = "collect"
    /\ args.target \notin disk.special
    /\ _collect_files(disk, args.target, args.recursive, ignore_patterns,
                      args.language) = {}
    /\ files' = <<>>
    /\ visited' = TRUE
    /\ Exit(ExitSuccess)
    /\ UNCHANGED <<disk, args, ignore_patterns, dir_layout, todo,
                   file_contents, failed, api_calls, interrupted,
                   fn_in, fn_out>>

\* Lines 323-340: files were collected, in an order iterdir() decides.
CollectFiles ==
    /\ pc = "collect"
    /\ args.target \notin disk.special
    /\ \E order \in Orders(_collect_files(disk, args.target, args.recursive,
                                          ignore_patterns, args.language)) :
          /\ order # <<>>
          /\ files' = order
    /\ visited' = TRUE
    /\ pc' = "prompt"
    /\ UNCHANGED <<disk, args, ignore_patterns, dir_layout, todo,
                   file_contents, failed, api_calls, exit_status,
                   interrupted, fn_in, fn_out>>

\* Lines 233-240: the layout is built and the loop over sorted(files)
\* starts.
BuildLayout ==
    /\ pc = "prompt"
    /\ dir_layout' = _build_directory_layout(RootPath, files)
    /\ todo' = SortedPaths(Range(files))
    /\ file_contents' = <<>>
    /\ pc' = IF files = <<>> THEN "call" ELSE "read"
    /\ UNCHANGED <<disk, args, ignore_patterns, files, visited, failed,
                   api_calls, exit_status, interrupted, fn_in, fn_out>>

\* The loop goes on to the next file, or _build_prompt returns and the
\* call is next.
NextFile ==
    /\ todo' = Tail(todo)
    /\ pc' = IF Tail(todo) = <<>> THEN "call" ELSE "read"

\* Lines 241-250: the file was read; its block is appended.
AppendBlock ==
    /\ file_contents' =
          file_contents \o Block(Head(todo), RootPath, disk.text[Head(todo)])
    /\ NextFile

\* SkipFile without the continue of line 243: the markers of the file are
\* appended around no content.
SkipFileKeepsMarkers ==
    /\ failed' = failed \cup {Head(todo)}
    /\ file_contents' = file_contents \o Block(Head(todo), RootPath, <<>>)
    /\ NextFile

\* Lines 242-243: _read_file_safely returned None; the file is skipped.
SkipFile ==
    /\ failed' = failed \cup {Head(todo)}
    /\ file_contents' = file_contents
    /\ NextFile

\* Line 218: read_text(encoding='utf-8') returns.
ReadUtf8 ==
    /\ pc = "read"
    /\ AppendBlock
    /\ UNCHANGED <<disk, args, ignore_patterns, files, visited, dir_layout,
                   failed, api_calls, exit_status, interrupted, fn_in, fn_out>>

\* Lines 218-220: the bytes are not UTF-8; the Latin-1 read is next.
ReadUtf8DecodeError ==
    /\ pc = "read"
    /\ pc' = "fallback"
    /\ UNCHANGED <<disk, args, ignore_patterns, files, visited, dir_layout,
                   todo, file_contents, failed, api_calls, exit_status,
                   interrupted, fn_in, fn_out>>

\* Lines 226-228: the read raises another Exception (an OSError).
ReadUtf8Error ==
    /\ pc = "read"
    /\ SkipFile
    /\ UNCHANGED <<disk, args, ignore_patterns, files, visited, dir_layout,
                   api_calls, exit_status, interrupted, fn_in, fn_out>>

\* Line 222: read_text(encoding='latin-1') returns.
ReadLatin1 ==
    /\ pc = "fallback"
    /\ AppendBlock
    /\ UNCHANGED <<disk, args, ignore_patterns, files, visited, dir_layout,
                   failed, api_calls, exit_status, interrupted, fn_in, fn_out>>

\* Lines 223-225: the Latin-1 read raises an Exception.
ReadLatin1Error ==
    /\ pc = "fallback"
    /\ SkipFile
    /\ UNCHANGED <<disk, args, ignore_patterns, files, visited, dir_layout,
                   api_calls, exit_status, interrupted, fn_in, fn_out>>

\* Lines 223-225: a KeyboardInterrupt is raised during the Latin-1 read;
\* the bare except catches it as it catches everything.
ReadLatin1Interrupted ==
    /\ pc = "fallback"
    /\ interrupted' = TRUE
    /\ SkipFile
    /\ UNCHANGED <<disk, args, ignore_patterns, files, visited, dir_layout,
                   api_calls, exit_status, fn_in, fn_out>>

\* Lines 410-412: a KeyboardInterrupt raised anywhere else before the call
\* reaches main(), which exits with 130.
Interrupt ==
    /\ pc \in {"review", "collect", "prompt", "read"}
    /\ interrupted' = TRUE
    /\ Exit(ExitInterrupted)
    /\ UNCHANGED <<disk, args, ignore_patterns, files, visited, dir_layout,
                   todo, file_contents, failed, api_calls, fn_in, fn_out>>

\* Lines 346-355 and 409-412: the call is made; review returns True on a
\* reply and False without one, and an interrupt during the call exits
\* with 130.
CallApi ==
    /\ pc = "call"
    /\ api_calls' = api_calls + 1
    /\ \E code \in {ExitSuccess, ExitFailure, ExitInterrupted} : Exit(code)
    /\ UNCHANGED <<disk, args, ignore_patterns, files, visited, dir_layout,
                   todo, file_contents, failed, interrupted, fn_in, fn_out>>

Next ==
    \/ CheckTargetMissing
    \/ CheckTargetExists
    \/ CollectRaises
    \/ CollectNothing
    \/ CollectFiles
    \/ BuildLayout
    \/ ReadUtf8
    \/ ReadUtf8DecodeError
    \/ ReadUtf8Error
    \/ ReadLatin1
    \/ ReadLatin1Error
    \/ ReadLatin1Interrupted
    \/ Interrupt
    \/ CallApi

Spec == Init /\ [][Next]_vars

---------------------------------------------------------------------------
(* Collection on its own, over more disks and command lines: directories   *)
(* that cannot be listed, more language tags, more ignore files.           *)

Deniable ==
    { RootDir, <<proj, <<"s","u","b">>>>, <<proj, <<"s","r","c">>>> }

InitCollect ==
    /\ disk \in {d \in Disks(Deniable) : d.denied \subseteq d.dirs}
    /\ \E target \in {RootDir} \cup disk.files,
          recursive \in BOOLEAN,
          language \in Languages,
          ignore_lines \in IgnoreFiles :
          args = Args(target, recursive, language, ignore_lines)
    /\ pc = "review"
    /\ Fresh
    /\ fn_in = <<>>
    /\ fn_out = <<>>

NextCollect ==
    \/ CheckTargetExists
    \/ CollectNothing
    \/ CollectFiles

SpecCollect == InitCollect /\ [][NextCollect]_vars

---------------------------------------------------------------------------
(* _should_ignore applied on its own to a name and a set of patterns.      *)

\* File names: not empty, and not "." or "..".
IgnoreNames ==
    Texts({"a", "b", ".", LF}, MaxNameLen) \ {<<>>, <<".">>, <<".", ".">>}

\* Patterns as _load_ignore_patterns leaves them: stripped and not empty.
IgnorePatterns == Texts({"a", "*", "?", "."}, MaxPatLen) \ {<<>>}

\* A second pattern of the set: a literal, a comment, a glob.
OtherPatterns == { <<"b">>, <<"#", "b">>, <<"b", "*">> }

IgnorePatternSets ==
    {{p} : p \in IgnorePatterns}
    \cup {{p, q} : p \in IgnorePatterns, q \in OtherPatterns}

\* The state of a run that never starts.
Idle ==
    /\ disk = DiskOf({}, {})
    /\ args = Args(RootDir, FALSE, <<>>, <<>>)
    /\ Fresh

InitIgnore ==
    /\ fn_in \in [name : IgnoreNames, patterns : IgnorePatternSets]
    /\ fn_out = FALSE
    /\ pc = "input"
    /\ Idle

ApplyShouldIgnore ==
    /\ pc = "input"
    /\ fn_out' = _should_ignore(fn_in.name, fn_in.patterns)
    /\ pc' = "output"
    /\ UNCHANGED <<disk, args, ignore_patterns, files, visited, dir_layout,
                   todo, file_contents, failed, api_calls, exit_status,
                   interrupted, fn_in>>

SpecIgnore == InitIgnore /\ [][ApplyShouldIgnore]_vars

---------------------------------------------------------------------------
(* _sanitize_for_json applied on its own to a content.                     *)

Contents == Texts({"a", LF, CR, NUL}, MaxContentLen)

InitSanitize ==
    /\ fn_in \in Contents
    /\ fn_out = <<>>
    /\ pc = "input"
    /\ Idle

ApplySanitize ==
    /\ pc = "input"
    /\ fn_out' = _sanitize_for_json(fn_in)
    /\ pc' = "output"
    /\ UNCHANGED <<disk, args, ignore_patterns, files, visited, dir_layout,
                   todo, file_contents, failed, api_calls, exit_status,
                   interrupted, fn_in>>

SpecSanitize == InitSanitize /\ [][ApplySanitize]_vars

---------------------------------------------------------------------------
(* C8: what _sanitize_for_json returns.                                    *)

\* The text with every "\r\n" and every other "\r" turned into one "\n",
\* read off in one pass.
RECURSIVE UnixText(_)
UnixText(s) ==
    IF s = <<>> THEN <<>>
    ELSE IF Head(s) = CR
         THEN <<LF>> \o UnixText(IF Len(s) >= 2 /\ s[2] = LF THEN Drop(s, 2)
                                 ELSE Tail(s))
    ELSE <<Head(s)>> \o UnixText(Tail(s))

NotNul(c) == c # NUL

EndsWithOneLF(s) ==
    /\ s # <<>>
    /\ s[Len(s)] = LF
    /\ (Len(s) = 1 \/ s[Len(s) - 1] # LF)

\* C8 as stated: for every content, the empty one and those that end in
\* line feeds included, the result holds no NUL and no "\r" and ends with
\* exactly one "\n".
C8_ExactlyOneTrailingNewline ==
    pc = "output" =>
        /\ ~Contains(fn_out, NUL)
        /\ ~Contains(fn_out, CR)
        /\ EndsWithOneLF(fn_out)

\* C8 as amended: the empty content is returned as it is; for any other
\* content the result holds no NUL and no "\r", is the content with its NULs
\* dropped, every "\r\n" and every other "\r" turned into one "\n", and one
\* "\n" appended exactly when that text does not end with one already; so
\* it ends with at least one "\n", and line feeds that end the content are
\* all kept.
C8_Sanitized ==
    pc = "output" =>
        IF fn_in = <<>> THEN fn_out = <<>>
        ELSE LET unix == UnixText(SelectSeq(fn_in, NotNul)) IN
             /\ ~Contains(fn_out, NUL)
             /\ ~Contains(fn_out, CR)
             /\ fn_out # <<>>
             /\ fn_out[Len(fn_out)] = LF
             /\ fn_out = IF unix # <<>> /\ unix[Len(unix)] = LF THEN unix
                         ELSE unix \o <<LF>>

\* A content with a NUL, a "\r\n" and a bare "\r" that ends without a line
\* feed has been sanitized.
C8_Witness ==
    /\ pc = "output"
    /\ fn_in = <<NUL, CR, "a">>
    /\ fn_out = <<LF, "a", LF>>

---------------------------------------------------------------------------
(* C3: what _should_ignore matches.                                        *)

\* Shell glob matching of a whole name: "*" is any run of characters, "?"
\* is any one character, every other character is itself.
RECURSIVE Glob(_, _)
Glob(pattern, name) ==
    IF pattern = <<>> THEN name = <<>>
    ELSE IF Head(pattern) = "*"
         THEN \/ Glob(Tail(pattern), name)
              \/ name # <<>> /\ Glob(pattern, Tail(name))
    ELSE /\ name # <<>>
         /\ (Head(pattern) = "?" \/ Head(pattern) = Head(name))
         /\ Glob(Tail(pattern), Tail(name))

\* What the claim says one pattern does to a name.
ClaimedPatternIgnores(name, pattern) ==
    /\ pattern # <<>>
    /\ Head(pattern) # "#"
    /\ IF Contains(pattern, "*") \/ Contains(pattern, "?")
       THEN Glob(pattern, name)
       ELSE name = pattern

\* C3 as stated: for every name that does not start with "." the result is
\* the or, over the patterns that are neither empty nor comments, of: the
\* glob matches the whole name (a pattern with "*" or "?"), the name equals
\* the pattern (any other).
C3_GlobSemantics ==
    (pc = "output" /\ ~StartsWith(fn_in.name, <<".">>)) =>
        fn_out = (\E p \in fn_in.patterns : ClaimedPatternIgnores(fn_in.name, p))

\* The same for the names that hold no line feed: this much the code does.
C3_GlobSemanticsOnOneLineNames ==
    (pc = "output" /\ ~StartsWith(fn_in.name, <<".">>)
        /\ ~Contains(fn_in.name, LF)) =>
        fn_out = (\E p \in fn_in.patterns : ClaimedPatternIgnores(fn_in.name, p))

---------------------------------------------------------------------------
(* Reading a layout and a body back.                                       *)

\* The sequence sorted by rank: the element with i - 1 elements before it
\* comes i-th.
Ranked(S, Before(_, _)) ==
    [i \in 1..Cardinality(S) |->
        CHOOSE x \in S : Cardinality({y \in S : Before(y, x)}) = i - 1]

\* How often the text part occurs in the text s.
Occurrences(part, s) ==
    Cardinality({i \in 1..Len(s) :
        i + Len(part) - 1 <= Len(s) /\ SubSeq(s, i, i + Len(part) - 1) = part})

\* The root-relative paths of the collected files.
Selected == {RelativeTo(files[i], RootPath) : i \in DOMAIN files}
Unread == {RelativeTo(f, RootPath) : f \in failed}

\* The depth of an entry line as build_tree_lines writes it: no connector
\* at the top, then one prefix glyph more per level.
LineDepth(line) ==
    IF line.connector = NoConnector THEN 0 ELSE Len(line.prefix) + 1

\* The path of the i-th entry line: its name below the path of the nearest
\* line above it that is one level up.
RECURSIVE EntryPath(_, _)
EntryPath(entries, i) ==
    IF LineDepth(entries[i]) = 0 THEN <<entries[i].name>>
    ELSE LET ups == {j \in 1..(i - 1) :
                        LineDepth(entries[j]) = LineDepth(entries[i]) - 1}
             up == CHOOSE j \in ups : \A k \in ups : k <= j
         IN EntryPath(entries, up) \o <<entries[i].name>>

\* The entry lines of a layout: all but the first.
Entries(layout) == Tail(layout)

\* The paths of the files a layout lists, one per leaf line.
LeafPaths(layout) ==
    LET entries == Entries(layout) IN
    [i \in {j \in DOMAIN entries : ~entries[j].dir} |-> EntryPath(entries, i)]

---------------------------------------------------------------------------
(* C1: the body of the document.                                           *)

\* The blocks of the files that were read, in the given order of their
\* root-relative paths.
BodyInOrder(Before(_, _)) ==
    LET order == Ranked(Selected \ Unread, Before) IN
    Join([i \in DOMAIN order |->
            StartMarker(order[i])
            \o _sanitize_for_json(disk.text[RootPath \o order[i]])
            \o EndMarker(order[i])])

ByPathString(r1, r2) == StrLess(PathStr(r1), PathStr(r2))

\* Segment by segment: the first segment that differs decides, as strings;
\* a path that is the start of another comes first.
BySegments(r1, r2) ==
    LET n == CHOOSE k \in 0..Len(r1) :
                 /\ k <= Len(r2)
                 /\ \A j \in 1..k : r1[j] = r2[j]
                 /\ (k = Len(r1) \/ k = Len(r2) \/ r1[k + 1] # r2[k + 1])
    IN IF n = Len(r1) THEN n < Len(r2)
       ELSE n < Len(r2) /\ StrLess(r1[n + 1], r2[n + 1])

\* C1 as stated: once _build_prompt is through, the body is one block per
\* file that was read, START marker, sanitized content, END marker, both
\* markers with the file's root-relative path, the blocks in ascending
\* order of the root-relative path strings.
C1_BlocksInPathStringOrder ==
    pc = "call" => file_contents = BodyInOrder(ByPathString)

\* C1 as amended: the same, with the blocks in ascending order of the
\* root-relative paths compared segment by segment (the order of Path
\* objects), whatever order the files were collected in: a.py before
\* sub/b.py, and src/a.py before src.py.
C1_BlocksInPathOrder ==
    pc = "call" => file_contents = BodyInOrder(BySegments)

\* src.py was collected before src/a.py, both were read, and the body is
\* complete.
C1_Witness ==
    /\ pc = "call"
    /\ failed = {}
    /\ files = << <<proj, <<"s","r","c",".","p","y">>>>,
                  <<proj, <<"s","r","c">>, <<"a",".","p","y">>>> >>

---------------------------------------------------------------------------
(* C2: files that cannot be read.                                          *)

\* C2: a file whose read failed never has a marker in the body; once
\* _build_prompt is through every other selected file has one START and one
\* END marker; the layout, once built, has one leaf for every selected
\* file, the failed ones included; and a run in which a read failed still
\* ends with the call, unless it is interrupted.
C2_FailedReadsAreSkipped ==
    /\ \A r \in Unread :
          /\ Occurrences(StartMarker(r), file_contents) = 0
          /\ Occurrences(EndMarker(r), file_contents) = 0
    /\ pc = "call" =>
          \A r \in Selected \ Unread :
              /\ Occurrences(StartMarker(r), file_contents) = 1
              /\ Occurrences(EndMarker(r), file_contents) = 1
    /\ dir_layout # <<>> =>
          LET leaves == LeafPaths(dir_layout) IN
          /\ {leaves[i] : i \in DOMAIN leaves} = Selected
          /\ Cardinality(DOMAIN leaves) = Cardinality(Selected)
    /\ (failed # {} /\ pc = "done") =>
          (api_calls = 1 \/ exit_status = <<ExitInterrupted>>)

\* The body is complete, one selected file could not be read and another
\* could.
C2_Witness ==
    /\ pc = "call"
    /\ failed # {}
    /\ Selected \ Unread # {}

---------------------------------------------------------------------------
(* C7: when the review service is called.                                  *)

\* C7: the service is called at most once, and only when the target exists
\* and files were collected; a run on a target that does not exist ends
\* with the failure status, with no traversal and no call; a run whose
\* collection yields no files ends with the success status, with no
\* layout built and no call.
C7_CallOnlyWithFiles ==
    /\ api_calls <= 1
    /\ api_calls = 1 => (exists(disk, args.target) /\ files # <<>>)
    /\ (pc = "done" /\ ~interrupted /\ ~exists(disk, args.target)) =>
          /\ exit_status = <<ExitFailure>>
          /\ ~visited
          /\ api_calls = 0
    /\ (pc = "done" /\ visited /\ files = <<>>
            /\ args.target \notin disk.special) =>
          /\ exit_status = <<ExitSuccess>>
          /\ dir_layout = <<>>
          /\ file_contents = <<>>
          /\ api_calls = 0

\* A run over a directory that holds files, all of them ignored, is over.
C7_Witness ==
    /\ pc = "done"
    /\ args.target = RootDir
    /\ disk.files # {}
    /\ visited
    /\ files = <<>>
    /\ exit_status = <<ExitSuccess>>

---------------------------------------------------------------------------
(* C10: a KeyboardInterrupt before the call.                               *)

\* C10 as stated: once a KeyboardInterrupt was raised before the call, the
\* run is over with status 130, and the service was not called.
C10_InterruptStopsTheRun ==
    interrupted =>
        /\ pc = "done"
        /\ exit_status = <<ExitInterrupted>>
        /\ api_calls = 0

---------------------------------------------------------------------------
(* C6: the order of the layout.                                            *)

\* The entries a layout of the selected files has: every file and every
\* directory on the way to one.
Nodes == UNION {{SubSeq(r, 1, k) : k \in 1..Len(r)} : r \in Selected}

IsDirNode(p) == \E r \in Selected : IsUnder(r, p)

\* The length of what two paths have in common at their start.
Common(x, y) ==
    CHOOSE k \in 0..Len(x) :
        /\ k <= Len(y)
        /\ \A j \in 1..k : x[j] = y[j]
        /\ (k = Len(x) \/ k = Len(y) \/ x[k + 1] # y[k + 1])

\* x is listed before y: a directory before what is below it; else the
\* children of their last common directory that lead to x and to y decide,
\* by dirsFirst (or files first), then by name.
ListedBefore(x, y, dirsFirst) ==
    LET k == Common(x, y) IN
    IF k = Len(x) THEN k < Len(y)
    ELSE IF k = Len(y) THEN FALSE
    ELSE LET cx == SubSeq(x, 1, k + 1)
             cy == SubSeq(y, 1, k + 1)
         IN \/ IsDirNode(cx) # IsDirNode(cy) /\ (IsDirNode(cx) = dirsFirst)
            \/ IsDirNode(cx) = IsDirNode(cy) /\ StrLess(x[k + 1], y[k + 1])

DirsFirst(x, y) == ListedBefore(x, y, TRUE)
FilesFirst(x, y) == ListedBefore(x, y, FALSE)

\* The layout lists exactly the nodes, in the given order, each directory
\* marked as one.
LayoutInOrder(Before(_, _)) ==
    LET entries == Entries(dir_layout)
        expected == Ranked(Nodes, Before)
    IN /\ Len(entries) = Len(expected)
       /\ \A i \in DOMAIN entries :
             /\ EntryPath(entries, i) = expected[i]
             /\ entries[i].dir = IsDirNode(expected[i])

\* C6 as stated: in the layout of a non-empty file set the children of
\* every directory come sub-directories first, then files, each group by
\* name, a directory's subtree right after its line, every selected file
\* once as a leaf and shared directories once.
C6_DirectoriesBeforeFiles ==
    dir_layout # <<>> => LayoutInOrder(DirsFirst)

\* What the code does: the same with the files of a directory before its
\* sub-directories.
C6_FilesBeforeDirectories ==
    dir_layout # <<>> => LayoutInOrder(FilesFirst)

---------------------------------------------------------------------------
(* C9: the connectors of the layout.                                       *)

\* The tree drawn by the usual convention, in the order build_tree_lines
\* lists the children: the corner for the last child of a directory and
\* the tee for the others; in the prefix, for each directory above, blanks
\* when it is a last child and a bar when it is not.
RECURSIVE TreeDrawing(_, _)
TreeDrawing(node, prefix) ==
    LET items == SortedItems(node.kids, DOMAIN node.kids)
        entry(i) ==
            LET last == (i = Len(items))
                subtree == node.kids[items[i]]
                line == Line(prefix, IF last THEN CORNER ELSE TEE, items[i],
                             ~subtree.file)
            IN IF subtree.file THEN <<line>>
               ELSE <<line>>
                    \o TreeDrawing(subtree,
                                   prefix \o <<IF last THEN BLANK ELSE PIPE>>)
    IN Join([i \in 1..Len(items) |-> entry(i)])

\* C9 as stated: the first line of the layout is the root's name and "/"
\* with no connector, and every line below it has the corner when its
\* entry is the last child of its directory and the tee when it is not,
\* after a prefix that says for each directory above whether that one is
\* a last child.
C9_ConnectorPerEntry ==
    dir_layout # <<>> =>
        dir_layout =
            <<Line(<<>>, NoConnector, Name(RootPath), TRUE)>>
            \o TreeDrawing(BuildTree(NewDir, SortedPaths(Range(files)), RootPath),
                           <<>>)

\* The part of C9 the code keeps: the first line.
C9_FirstLine ==
    dir_layout # <<>> =>
        dir_layout[1] = Line(<<>>, NoConnector, Name(RootPath), TRUE)

---------------------------------------------------------------------------
(* C4: nothing ignored is collected.                                       *)

\* C4: once collection is through, no collected path has a component below
\* the root that _should_ignore holds for, and none has a component that
\* starts with "."; so a hidden file that is the target itself is not
\* collected.
C4_NothingIgnoredIsCollected ==
    visited =>
        \A i \in DOMAIN files :
            LET rel == RelativeTo(files[i], RootPath) IN
            \A k \in DOMAIN rel :
                /\ ~_should_ignore(rel[k], ignore_patterns)
                /\ Head(rel[k]) # "."

\* A recursive collection is through over a disk with a file in .git/ and
\* a file below a directory a pattern ignores, and it yielded files.
C4_Witness ==
    /\ visited
    /\ args.recursive
    /\ args.target = RootDir
    /\ files # <<>>
    /\ <<proj, <<".","g","i","t">>, <<"c",".","p","y">>>> \in disk.files
    /\ \E f \in disk.files :
          /\ Len(f) = 3
          /\ Head(f[2]) # "."
          /\ _should_ignore(f[2], ignore_patterns)
          /\ ~_should_ignore(f[3], ignore_patterns)

---------------------------------------------------------------------------
(* C5: the language filter.                                                *)

\* A file of the disk that the walk from the target comes to: every
\* component below the target passes _should_ignore, every directory on
\* the way can be listed, and it is right below the target unless the walk
\* is recursive.
WalkedTo(f) ==
    /\ IsUnder(f, args.target)
    /\ args.recursive \/ Len(f) = Len(args.target) + 1
    /\ \A k \in (Len(args.target) + 1)..Len(f) :
          ~_should_ignore(f[k], ignore_patterns)
    /\ \A k \in Len(args.target)..(Len(f) - 1) :
          SubSeq(f, 1, k) \notin disk.denied

\* The tag is a key of the table, compared without case, and the file's
\* lower-cased suffix is not in its suffix set.
FilteredOut(f) ==
    \E tag \in DOMAIN Extensions :
        /\ Lower(tag) = Lower(args.language)
        /\ Lower(Suffix(Name(f))) \notin Extensions[tag]

\* C5: once collection is through: on a directory, a file the walk comes
\* to is collected exactly when the tag is no key of the table (empty or
\* unknown) or the file's lower-cased suffix is in the tag's set; on a
\* single file, that file is collected whatever its suffix and the tag,
\* unless it is ignored.
C5_LanguageFilter ==
    visited =>
        IF is_file(disk, args.target)
        THEN Range(files) =
                IF _should_ignore(Name(args.target), ignore_patterns)
                THEN {} ELSE {args.target}
        ELSE Range(files) =
                {f \in disk.files : WalkedTo(f) /\ ~FilteredOut(f)}

\* A collection with the tag Python is through: a.py and e.PY were
\* collected and readme.md was not.
C5_Witness ==
    /\ visited
    /\ args.target = RootDir
    /\ args.language = <<"P","y","t","h","o","n">>
    /\ <<proj, <<"r","e","a","d","m","e",".","m","d">>>> \in disk.files
    /\ Range(files) = { <<proj, <<"a",".","p","y">>>>,
                        <<proj, <<"s","u","b">>, <<"d">>, <<"e",".","P","Y">>>> }

\* A collection on the single file readme.md with the tag python is
\* through, and the file was collected.
C5_SingleFileWitness ==
    /\ visited
    /\ args.target = <<proj, <<"r","e","a","d","m","e",".","m","d">>>>
    /\ args.language = python
    /\ files = <<args.target>>

=============================================================================
